---- MODULE Spec2Model ----
(***************************************************************************)
(* BubbleSubtitle: the streaming transcription task of src/utils.py        *)
(* (process_video_task_streaming and process_audio_batch), and the request *)
(* handler of src/main.py (handle_request) that starts it.                 *)
(*                                                                         *)
(* One task is one sequential run; pc is its position.  Sizes are bytes,   *)
(* times are milliseconds (the code holds seconds as floats).  Every       *)
(* collaborator call (HTTP, ffmpeg, Whisper, GCS, webhook) is a            *)
(* nondeterministic choice over the results the code distinguishes.        *)
(***************************************************************************)
EXTENDS Integers, Sequences, FiniteSets

\* ------------------------------------------------------------ constants
VIDEO_CHUNK_SIZE_MB == 50
VIDEO_CHUNK_SIZE_BYTES == VIDEO_CHUNK_SIZE_MB * 1024 * 1024
AUDIO_BATCH_SIZE_MB == 24
AUDIO_BATCH_SIZE_BYTES == AUDIO_BATCH_SIZE_MB * 1024 * 1024
DefaultMaxSegmentMb == 24

MB == 1024 * 1024

\* --------------------------------------------------------------- bounds
\* The largest number of video chunks of a task.
MaxChunks == 3
\* The largest number of segments one transcript returns.
MaxCues == 2

\* Content-Length values: none/zero, and sizes that need 1..MaxChunks chunks
\* (the last chunk holding a single byte).
TotalSizes == {0} \cup {(k - 1) * VIDEO_CHUNK_SIZE_BYTES + 1 : k \in 1..MaxChunks}
\* Encoded size of one chunk's mp3: half the batch threshold, and the threshold
\* itself.
AudioSizes == {12 * MB, 24 * MB}
\* ffprobe's duration of one chunk's mp3, in ms: ffmpeg encodes at a constant
\* 32 kbit/s ("-b:a", "32k"), 4 bytes per ms (convert_to_audio returns the
\* duration only when it is > 0).
AudioDurationMs(size) == size \div 4
\* Local start times of a transcript's segments, in ms.
CueStarts == {0, 1000}
\* max_segment_mb values of a request (24 when the request has none).
MaxSegmentMbValues == {DefaultMaxSegmentMb}

TASK_ID == "task-1"
USER_ID == "user-1"
VIDEO_URL == "https://host/video.mp4"
WEBHOOK == "https://n8n/webhook"
BUCKET_NAME == "bubblebucket-a1q5lb"
SRT_FOLDER == "srt"

\* The JSON body of a request is the function from the keys it has to their
\* values (no key at all: an empty object, or a body that is not JSON).
RequestKeys == {"video_url", "task_id", "webhook_url", "n8n_webhook",
                "max_segment_mb", "user_id"}
\* The values a key has when it is present: a required field may be the empty
\* string, max_segment_mb is half the default.
RequestValues ==
  [video_url : {"", VIDEO_URL}, task_id : {"", TASK_ID}, webhook_url : {WEBHOOK},
   n8n_webhook : {WEBHOOK}, max_segment_mb : {DefaultMaxSegmentMb \div 2},
   user_id : {USER_ID}]
Requests == {[k \in K |-> v[k]] : K \in SUBSET RequestKeys, v \in RequestValues}
\* The request that starts the task of process_video_task_streaming below.
BaseRequest ==
  [video_url |-> VIDEO_URL, task_id |-> TASK_ID, n8n_webhook |-> WEBHOOK,
   user_id |-> USER_ID]

\* segment.text as Whisper returns it: words with a space before or after.
SegmentText(s) == IF s = 0 THEN " Hello" ELSE "world "
\* A Whisper segment: local start and end, 0 <= start < end (one second of
\* speech each), and its text.
Cues == {[start |-> s, end |-> s + 1000, text |-> SegmentText(s)] : s \in CueStarts}
SeqsUpTo(S, n) == UNION {[1..k -> S] : k \in 0..n}
\* transcript.segments: ordered by local start.
Transcripts ==
  {t \in SeqsUpTo(Cues, MaxCues) :
     \A i \in 1..(Len(t) - 1) : t[i].start <= t[i + 1].start}

Max(a, b) == IF a >= b THEN a ELSE b
Min(a, b) == IF a <= b THEN a ELSE b

VARIABLES
  pc,                    \* position in process_video_task_streaming
  name_bound,            \* is the global name download_video_chunk bound?
  max_segment_mb,        \* the request's max_segment_mb argument
  total_size,            \* Content-Length of the video
  num_video_chunks,
  chunk_idx,
  start_byte, end_byte,  \* the current chunk's byte range
  chunk_duration,        \* convert_to_audio's result for the current chunk
  audio_size,            \* len(audio_data) of the current chunk
  accumulated_audio,     \* the buffer's content: the chunk indexes written to it
  accumulated_size,
  audio_batch_count,
  total_duration_offset,
  final_srt_parts,       \* the shifted cues, in output order
  srt_file,              \* the content of temp_dir/final.srt ("" before it is written)
  srt_stored,            \* final.srt is in object storage
  srt_url,               \* upload_to_gcs's result for final.srt
  request,               \* the JSON body of the POST request (its fields)
  response,              \* handle_request's HTTP status (0: none yet)
  call_args,             \* the arguments process_video_task was called with
  posts,                 \* payloads handed to requests.post, in order
  error,                 \* the exception being handled ("" when none)
  temp_dir,              \* "exists" | "removed"
  rmtree_calls,
  rmtree_error,          \* rmtree met an error (and ignored it)
  raised,                \* an exception left process_video_task
  \* history, not program state
  acc_duration,          \* measured duration of the audio in the buffer
  batches,               \* the batches handed to process_audio_batch, in order
  last_batch,            \* the batch handed to process_audio_batch last
  all_ok                 \* no collaborator call has failed so far

vars == <<pc, name_bound, max_segment_mb, total_size, num_video_chunks, chunk_idx,
          start_byte, end_byte, chunk_duration, audio_size, accumulated_audio,
          accumulated_size, audio_batch_count, total_duration_offset,
          final_srt_parts, srt_file, srt_stored, srt_url, request, response,
          call_args, posts, error, temp_dir, rmtree_calls, rmtree_error, raised,
          acc_duration, batches, last_batch, all_ok>>

\* The locals of the chunk loop and of the batch accumulator.
loopVars == <<num_video_chunks, chunk_idx, start_byte, end_byte, chunk_duration,
              audio_size, accumulated_audio, accumulated_size, audio_batch_count,
              total_duration_offset, final_srt_parts, acc_duration, batches,
              last_batch>>
envVars == <<name_bound, max_segment_mb, request, response, call_args>>
\* final.srt: the local file, the stored object and its URL.
srtVars == <<srt_file, srt_stored, srt_url>>
exitVars == <<temp_dir, rmtree_calls, rmtree_error, raised>>

\* dict.get(key, default)
DataGet(data, key, default) == IF key \in DOMAIN data THEN data[key] ELSE default
\* Python's truth value of a field read with data.get(key): None and "" are
\* false.
Truthy(data, key) == key \in DOMAIN data /\ data[key] # ""

\* main.py l.34-40: the arguments handle_request passes to process_video_task.
\* Only called for data that passed l.43, so the three required ones are there.
CallArgs(data) ==
  [video_url |-> data["video_url"],
   user_id |-> DataGet(data, "user_id", "anonymous"),
   task_id |-> data["task_id"],
   whisper_language |-> DataGet(data, "whisper_language", "auto"),
   webhook_url |-> data["n8n_webhook"],
   prompt |-> DataGet(data, "prompt", "")]
\* process_video_task has not been called.
NoCall ==
  [video_url |-> "", user_id |-> "", task_id |-> "", whisper_language |-> "",
   webhook_url |-> "", prompt |-> ""]

NoBatch == [n |-> 0, chunks |-> <<>>, size |-> 0, measured |-> 0,
            offset_before |-> 0, offset_after |-> 0, result |-> "none",
            segments |-> <<>>, entries |-> <<>>]

\* Everything but the request: no task is running yet.
InitTask ==
  /\ name_bound \in BOOLEAN
  /\ num_video_chunks = 0
  /\ chunk_idx = 0
  /\ start_byte = 0
  /\ end_byte = 0
  /\ chunk_duration = 0
  /\ audio_size = 0
  /\ accumulated_audio = <<>>
  /\ accumulated_size = 0
  /\ audio_batch_count = 0
  /\ total_duration_offset = 0
  /\ final_srt_parts = <<>>
  /\ srt_file = ""
  /\ srt_stored = FALSE
  /\ srt_url = ""
  /\ response = 0
  /\ posts = <<>>
  /\ error = ""
  /\ temp_dir = "exists"
  /\ rmtree_calls = 0
  /\ rmtree_error = FALSE
  /\ raised = FALSE
  /\ acc_duration = 0
  /\ batches = <<>>
  /\ last_batch = NoBatch
  /\ all_ok = TRUE

\* process_video_task entered with the arguments of BaseRequest.
Init ==
  /\ InitTask
  /\ pc = "head"
  /\ request = BaseRequest
  /\ call_args = CallArgs(BaseRequest)
  /\ max_segment_mb \in MaxSegmentMbValues
  /\ total_size = 0

\* handle_request entered with any request.
InitRequest ==
  /\ InitTask
  /\ pc = "request"
  /\ request \in Requests
  /\ call_args = NoCall
  /\ max_segment_mb = 0
  /\ total_size = 0

\* An exception raised inside the try block: control goes to the except clause.
Raise(cause, collaborator_failed) ==
  /\ pc' = "except"
  /\ error' = cause
  /\ all_ok' = (all_ok /\ ~collaborator_failed)


\* ------------------------------------------------- 1. size probe (l.44-48)
\* requests.head raises, or Content-Length is read (0 when the header is absent).
HeadRequest ==
  /\ pc = "head"
  /\ \/ /\ \E ts \in TotalSizes : total_size' = ts
        /\ pc' = "metadata"
        /\ UNCHANGED <<error, all_ok>>
     \/ /\ Raise("head request failed", TRUE)
        /\ UNCHANGED total_size
  /\ UNCHANGED <<loopVars, envVars, exitVars, srtVars, posts>>

\* ------------------------------------------- 2. MP4 metadata (l.50-53)
\* download_mp4_metadata catches every exception and returns True or False.
DownloadMetadata ==
  /\ pc = "metadata"
  /\ \/ /\ pc' = "plan"
        /\ UNCHANGED <<error, all_ok>>
     \/ Raise("metadata download failed", TRUE)
  /\ UNCHANGED <<loopVars, envVars, exitVars, total_size, srtVars, posts>>

\* ------------------------------------------- 3./4. the plan (l.55-64)
\* NumVideoChunks as the quotient plus one.
NumVideoChunksPlusOne(ts) == ts \div VIDEO_CHUNK_SIZE_BYTES + 1
NumVideoChunks(ts) ==
  (ts + VIDEO_CHUNK_SIZE_BYTES - 1) \div VIDEO_CHUNK_SIZE_BYTES

Plan ==
  /\ pc = "plan"
  /\ num_video_chunks' = NumVideoChunks(total_size)
  /\ accumulated_audio' = <<>>
  /\ accumulated_size' = 0
  /\ audio_batch_count' = 0
  /\ total_duration_offset' = 0
  /\ final_srt_parts' = <<>>
  /\ chunk_idx' = 0
  /\ pc' = "loop"
  /\ UNCHANGED <<envVars, exitVars, total_size, start_byte, end_byte, chunk_duration,
                 audio_size, srtVars, posts, error, acc_duration, batches,
                 last_batch, all_ok>>

\* ------------------------------------- 5. for chunk_idx in range(...) (l.67-69)
StartByte(idx) == idx * VIDEO_CHUNK_SIZE_BYTES
\* EndByte that ends a range where the next one starts.
EndByteExclusive(idx, ts) == Min(StartByte(idx) + VIDEO_CHUNK_SIZE_BYTES, ts - 1)
EndByte(idx, ts) == Min(StartByte(idx) + VIDEO_CHUNK_SIZE_BYTES - 1, ts - 1)

LoopNext ==
  /\ pc = "loop"
  /\ chunk_idx < num_video_chunks
  /\ start_byte' = StartByte(chunk_idx)
  /\ end_byte' = EndByte(chunk_idx, total_size)
  /\ pc' = "download"
  /\ UNCHANGED <<envVars, exitVars, total_size, num_video_chunks, chunk_idx,
                 chunk_duration, audio_size, accumulated_audio, accumulated_size,
                 audio_batch_count, total_duration_offset, final_srt_parts,
                 srtVars, posts, error, acc_duration, batches, last_batch, all_ok>>

LoopEnd ==
  /\ pc = "loop"
  /\ chunk_idx >= num_video_chunks
  /\ pc' = "assemble"
  /\ UNCHANGED <<loopVars, envVars, exitVars, total_size, srtVars, posts, error,
                 all_ok>>

\* ------------------------------------------ 5.1 download the chunk (l.74-78)
\* utils.py has no "def download_video_chunk": the body written for it sits
\* after verify_mp4_structure's return (l.360-381) and is never bound to the
\* name.  Python looks the global up at call time: unbound, the call raises
\* NameError (an Exception, caught at l.172); bound by the importing process,
\* it returns True, or False after its retries.
DownloadChunk ==
  /\ pc = "download"
  /\ \/ /\ ~name_bound
        /\ Raise("name 'download_video_chunk' is not defined", FALSE)
     \/ /\ name_bound
        /\ pc' = "combine"
        /\ UNCHANGED <<error, all_ok>>
     \/ /\ name_bound
        /\ Raise("chunk download failed", TRUE)
  /\ UNCHANGED <<loopVars, envVars, exitVars, total_size, srtVars, posts>>

\* ----------------------------------- 5.2 chunk + metadata (l.80-85)
Combine ==
  /\ pc = "combine"
  /\ \/ /\ pc' = "convert"
        /\ UNCHANGED <<error, all_ok>>
     \/ Raise("chunk metadata combine failed", TRUE)
  /\ UNCHANGED <<loopVars, envVars, exitVars, total_size, srtVars, posts>>

\* -------------------------------- 5.3/5.4 audio of the chunk (l.87-100)
\* convert_to_audio returns the measured duration (> 0) or None; the mp3 it
\* wrote is read back and its length taken.
Convert ==
  /\ pc = "convert"
  /\ \/ /\ \E sz \in AudioSizes :
              /\ chunk_duration' = AudioDurationMs(sz)
              /\ audio_size' = sz
        /\ pc' = "accumulate"
        /\ UNCHANGED <<error, all_ok>>
     \/ /\ Raise("audio conversion failed", TRUE)
        /\ UNCHANGED <<chunk_duration, audio_size>>
  /\ UNCHANGED <<envVars, exitVars, total_size, num_video_chunks, chunk_idx,
                 start_byte, end_byte, accumulated_audio, accumulated_size,
                 audio_batch_count, total_duration_offset, final_srt_parts,
                 srtVars, posts, acc_duration, batches, last_batch>>

\* ------------------------------ 5.5/5.6 accumulate and decide (l.102-113)
IsLastChunk(idx, n) == idx = n - 1
\* ShouldProcess without the last-chunk case.
ShouldProcessNoLast(acc_size, idx, n) == acc_size >= AUDIO_BATCH_SIZE_BYTES
ShouldProcess(acc_size, idx, n) ==
  (acc_size >= AUDIO_BATCH_SIZE_BYTES) \/ IsLastChunk(idx, n)

Accumulate ==
  /\ pc = "accumulate"
  /\ accumulated_audio' = Append(accumulated_audio, chunk_idx)
  /\ accumulated_size' = accumulated_size + audio_size
  /\ acc_duration' = acc_duration + chunk_duration
  /\ IF ShouldProcess(accumulated_size', chunk_idx, num_video_chunks)
          /\ accumulated_size' > 0
       THEN /\ audio_batch_count' = audio_batch_count + 1
            /\ pc' = "batch"
       ELSE /\ audio_batch_count' = audio_batch_count
            /\ pc' = "cleanchunk"
  /\ UNCHANGED <<envVars, exitVars, total_size, num_video_chunks, chunk_idx,
                 start_byte, end_byte, chunk_duration, audio_size,
                 total_duration_offset, final_srt_parts, srtVars, posts, error,
                 batches, last_batch, all_ok>>

\* --------------------------------- process_audio_batch (l.482-525)
\* What the collaborators of one batch do: the upload of the batch's mp3
\* raises, the transcription raises, or it returns transcript.segments.
BatchOutcomes ==
  {[kind |-> "upload_failed", segments |-> <<>>],
   [kind |-> "transcribe_failed", segments |-> <<>>]}
    \cup {[kind |-> "ok", segments |-> t] : t \in Transcripts}

\* "%d" and "%0<width>d" of a natural number.
Digit(d) == SubSeq("0123456789", d + 1, d + 1)
RECURSIVE Dec(_)
Dec(n) == IF n < 10 THEN Digit(n) ELSE Dec(n \div 10) \o Digit(n % 10)
RECURSIVE ZeroPad(_, _)
ZeroPad(n, width) ==
  IF width <= 1 THEN Dec(n)
  ELSE IF Len(Dec(n)) >= width THEN Dec(n)
  ELSE "0" \o ZeroPad(n, width - 1)

\* str(timedelta(seconds=t)) for t = ms / 1000: "H:MM:SS", preceded by
\* "D day(s), " when there are days and followed by ".ffffff" when the
\* microseconds are not 0.
TimedeltaStr(ms) ==
  LET days == ms \div 86400000
      hh == (ms % 86400000) \div 3600000
      mm == (ms % 3600000) \div 60000
      ss == (ms % 60000) \div 1000
      microseconds == (ms % 1000) * 1000
      plural == IF days = 1 THEN "" ELSE "s"
  IN (IF days # 0 THEN Dec(days) \o " day" \o plural \o ", " ELSE "")
       \o Dec(hh) \o ":" \o ZeroPad(mm, 2) \o ":" \o ZeroPad(ss, 2)
       \o (IF microseconds # 0 THEN "." \o ZeroPad(microseconds, 6) ELSE "")

\* s.replace('.', ',')
RECURSIVE ReplaceDot(_)
ReplaceDot(s) ==
  IF s = "" THEN ""
  ELSE (IF SubSeq(s, 1, 1) = "." THEN "," ELSE SubSeq(s, 1, 1))
         \o ReplaceDot(SubSeq(s, 2, Len(s)))

\* l.512-513: str(timedelta(seconds=t))[:-3].replace('.', ',')
TimestampStr(ms) ==
  LET s == TimedeltaStr(ms) IN ReplaceDot(SubSeq(s, 1, Max(Len(s) - 3, 0)))

\* str.strip() of texts whose only whitespace is the space.
RECURSIVE Strip(_)
Strip(s) ==
  IF s = "" THEN ""
  ELSE IF SubSeq(s, 1, 1) = " " THEN Strip(SubSeq(s, 2, Len(s)))
  ELSE IF SubSeq(s, Len(s), Len(s)) = " " THEN Strip(SubSeq(s, 1, Len(s) - 1))
  ELSE s

\* SrtEntry with the end time left local.
SrtEntryEndLocal(segment, time_offset) ==
  [start |-> segment.start + time_offset, end |-> segment.end,
   srt_entry |-> TimestampStr(segment.start + time_offset) \o " --> "
                   \o TimestampStr(segment.end) \o "\n" \o Strip(segment.text)]

\* l.509-516: a segment shifted by time_offset and rendered.  srt_entry is the
\* string the code appends; start and end keep the two shifted times as
\* numbers (the code has them as start_time and end_time).
SrtEntry(segment, time_offset) ==
  LET start_time == segment.start + time_offset
      end_time == segment.end + time_offset
  IN [start |-> start_time, end |-> end_time,
      srt_entry |-> TimestampStr(start_time) \o " --> " \o TimestampStr(end_time)
                      \o "\n" \o Strip(segment.text)]

\* l.506, l.518: batch_duration = max(batch_duration, segment.end), from 0.0.
RECURSIVE BatchDurationFrom(_, _)
BatchDurationFrom(segments, acc) ==
  IF segments = <<>> THEN acc
  ELSE BatchDurationFrom(Tail(segments), Max(acc, Head(segments).end))

BatchDuration(segments) == BatchDurationFrom(segments, 0)

\* The pair (srt_entries, batch_duration) returned: l.521, or l.525 after any
\* exception.
ProcessAudioBatch(outcome, time_offset) ==
  IF outcome.kind = "ok"
    THEN [entries |-> [i \in 1..Len(outcome.segments) |->
                         SrtEntry(outcome.segments[i], time_offset)],
          duration |-> BatchDuration(outcome.segments)]
    ELSE [entries |-> <<>>, duration |-> 0]

\* NextOffset that never advances.
NextOffsetStale(offset, srt_part, batch_duration) == offset
\* l.127-129: the offset after a batch.
NextOffset(offset, srt_part, batch_duration) ==
  IF srt_part # <<>> THEN offset + batch_duration ELSE offset

\* l.127-128: the cue list after a batch.
ExtendParts(parts, srt_part) ==
  IF srt_part # <<>> THEN parts \o srt_part ELSE parts

\* l.133-135: the buffer after a batch.
ResetAccumulator(buffer) == <<>>

\* BatchErrorPropagates without the try/except of process_audio_batch.
BatchErrorUncaught(outcome) == outcome.kind # "ok"
\* l.523-525: except Exception: logger.error(...); return [], 0.0.
BatchErrorPropagates(outcome) == FALSE

\* ------------------------------ 5.7/5.8 one batch (l.115-135)
ProcessBatch ==
  /\ pc = "batch"
  /\ \E o \in BatchOutcomes :
       LET r == ProcessAudioBatch(o, total_duration_offset) IN
         /\ pc' = IF BatchErrorPropagates(o) THEN "except" ELSE "cleanchunk"
         /\ error' = IF BatchErrorPropagates(o) THEN "audio batch failed" ELSE error
         /\ final_srt_parts' = ExtendParts(final_srt_parts, r.entries)
         /\ total_duration_offset' =
              NextOffset(total_duration_offset, r.entries, r.duration)
         /\ last_batch' = [n |-> audio_batch_count,
                           chunks |-> accumulated_audio,
                           size |-> accumulated_size,
                           measured |-> acc_duration,
                           offset_before |-> total_duration_offset,
                           offset_after |-> total_duration_offset',
                           result |-> o.kind,
                           segments |-> o.segments,
                           entries |-> r.entries]
         /\ all_ok' = (all_ok /\ o.kind = "ok" /\ o.segments # <<>>)
  /\ batches' = Append(batches, [chunks |-> accumulated_audio,
                                 result |-> last_batch'.result,
                                 segments |-> last_batch'.segments,
                                 offset_before |-> total_duration_offset])
  /\ accumulated_audio' = ResetAccumulator(accumulated_audio)
  /\ accumulated_size' = IF accumulated_audio' = <<>> THEN 0 ELSE accumulated_size
  /\ acc_duration' = IF accumulated_audio' = <<>> THEN 0 ELSE acc_duration
  /\ UNCHANGED <<envVars, exitVars, total_size, num_video_chunks, chunk_idx,
                 start_byte, end_byte, chunk_duration, audio_size,
                 audio_batch_count, srtVars, posts>>

\* ------------------------------ 5.9 remove the chunk's files (l.137-140)
CleanChunk ==
  /\ pc = "cleanchunk"
  /\ chunk_idx' = chunk_idx + 1
  /\ pc' = "loop"
  /\ UNCHANGED <<envVars, exitVars, total_size, num_video_chunks, start_byte,
                 end_byte, chunk_duration, audio_size, accumulated_audio,
                 accumulated_size, audio_batch_count, total_duration_offset,
                 final_srt_parts, srtVars, posts, error, acc_duration, batches,
                 last_batch, all_ok>>

\* ------------------------------ final.srt is written, or not (l.143-147, l.170)
\* l.146-147: f.write(f"{i + 1}\n{srt_entry}\n") for i, srt_entry in
\* enumerate(parts), i from 0.
SrtBlock(i, srt_entry) == Dec(i + 1) \o "\n" \o srt_entry \o "\n"
RECURSIVE WriteSrtFrom(_, _)
WriteSrtFrom(parts, i) ==
  IF i >= Len(parts) THEN ""
  ELSE SrtBlock(i, parts[i + 1].srt_entry) \o WriteSrtFrom(parts, i + 1)
WriteSrt(parts) == WriteSrtFrom(parts, 0)

\* HasCues that takes any list, the empty one too.
HasCuesAlways(parts) == TRUE
\* l.143: "if final_srt_parts:", a list being true when it is not empty.
HasCues(parts) == parts # <<>>

Assemble ==
  /\ pc = "assemble"
  /\ \/ /\ HasCues(final_srt_parts)
        /\ srt_file' = WriteSrt(final_srt_parts)
        /\ pc' = "upload"
        /\ UNCHANGED <<error, all_ok>>
     \/ /\ ~HasCues(final_srt_parts)
        /\ Raise("no audio batch was processed", FALSE)
        /\ UNCHANGED srt_file
  /\ UNCHANGED <<loopVars, envVars, exitVars, total_size, srt_stored, srt_url, posts>>

\* ------------------------------ upload_to_gcs of final.srt (l.149, l.527-540)
\* l.149: the blob path of final.srt; l.537: the URL upload_to_gcs returns.
SrtBlobPath(args) ==
  args.user_id \o "/" \o args.task_id \o "/" \o SRT_FOLDER \o "/final.srt"
GcsUrl(blob_path) ==
  "https://storage.googleapis.com/" \o BUCKET_NAME \o "/" \o blob_path

\* UploadToGcsRaises that logs the error and returns None.
UploadToGcsSwallows(uploaded) == FALSE
\* l.538-540: except Exception: logger.error(...); raise.
UploadToGcsRaises(uploaded) == ~uploaded

UploadSrt ==
  /\ pc = "upload"
  /\ \E uploaded \in BOOLEAN :
       /\ srt_stored' = uploaded
       /\ IF UploadToGcsRaises(uploaded)
            THEN /\ Raise("final.srt upload failed", TRUE)
                 /\ UNCHANGED srt_url
            ELSE /\ srt_url' = IF uploaded THEN GcsUrl(SrtBlobPath(call_args))
                                           ELSE "None"
                 /\ pc' = "post"
                 /\ UNCHANGED <<error, all_ok>>
  /\ UNCHANGED <<loopVars, envVars, exitVars, total_size, srt_file, posts>>

\* ------------------------------ the success payload (l.153-168)
SuccessPayload ==
  [status |-> "success", cause |-> "", user_id |-> call_args.user_id,
   task_id |-> call_args.task_id, srt_url |-> srt_url]

\* requests.post returns (whatever the HTTP status), or raises: the call is
\* inside the try block, so its exception reaches the except clause.
PostSuccess ==
  /\ pc = "post"
  /\ \/ /\ posts' = Append(posts, [payload |-> SuccessPayload, returned |-> TRUE])
        /\ pc' = "finally"
        /\ UNCHANGED <<error, all_ok>>
     \/ /\ posts' = Append(posts, [payload |-> SuccessPayload, returned |-> FALSE])
        /\ Raise("success webhook post failed", TRUE)
  /\ UNCHANGED <<loopVars, envVars, exitVars, total_size, srtVars>>

\* ------------------------------ except Exception as e (l.172-186)
FailurePayload(e) ==
  [status |-> "failed", cause |-> e, user_id |-> call_args.user_id,
   task_id |-> call_args.task_id, srt_url |-> ""]

\* FailurePostPropagates without the inner try/except.
FailurePostUnguarded(post_returned) == ~post_returned
\* l.183-186: try: requests.post(...) except: pass.
FailurePostPropagates(post_returned) == FALSE

Except ==
  /\ pc = "except"
  /\ \E post_returned \in BOOLEAN :
       /\ posts' = Append(posts, [payload |-> FailurePayload(error),
                                  returned |-> post_returned])
       /\ raised' = (raised \/ FailurePostPropagates(post_returned))
       /\ all_ok' = (all_ok /\ post_returned)
  /\ pc' = "finally"
  /\ UNCHANGED <<loopVars, envVars, total_size, srtVars, error, temp_dir,
                 rmtree_calls, rmtree_error>>

\* ------------------------------ finally (l.187-189)
\* RmtreePropagates with ignore_errors=False.
RmtreeStrict(rm_error) == rm_error
\* shutil.rmtree(temp_dir, ignore_errors=True): an error inside is ignored,
\* and what could not be removed stays.
RmtreePropagates(rm_error) == FALSE


Finally ==
  /\ pc = "finally"
  /\ \E rm_error \in BOOLEAN :
       /\ rmtree_error' = rm_error
       /\ temp_dir' = IF rm_error THEN temp_dir ELSE "removed"
       /\ raised' = (raised \/ RmtreePropagates(rm_error))
  /\ rmtree_calls' = rmtree_calls + 1
  /\ pc' = "returned"
  /\ UNCHANGED <<loopVars, envVars, total_size, srtVars, posts, error, all_ok>>

Next ==
  \/ HeadRequest
  \/ DownloadMetadata
  \/ Plan
  \/ LoopNext
  \/ LoopEnd
  \/ DownloadChunk
  \/ Combine
  \/ Convert
  \/ Accumulate
  \/ ProcessBatch
  \/ CleanChunk
  \/ Assemble
  \/ UploadSrt
  \/ PostSuccess
  \/ Except
  \/ Finally

Spec == Init /\ [][Next]_vars

\* ------------------------------ the byte-range plan alone (l.55-69)
\* Positive sizes of at most MaxChunks chunks: just over, halfway through, just
\* under and exactly at a multiple of the chunk size.
RangeOffsets == {1, 2, VIDEO_CHUNK_SIZE_BYTES \div 2, VIDEO_CHUNK_SIZE_BYTES - 1,
                 VIDEO_CHUNK_SIZE_BYTES}
RangeSizes ==
  {k * VIDEO_CHUNK_SIZE_BYTES + d : k \in 0..(MaxChunks - 1), d \in RangeOffsets}

\* The task at l.55, the probe having returned any of the sizes.
InitRanges ==
  /\ InitTask
  /\ pc = "plan"
  /\ request = BaseRequest
  /\ call_args = CallArgs(BaseRequest)
  /\ max_segment_mb = DefaultMaxSegmentMb
  /\ total_size \in RangeSizes

\* l.71-140, the body of the loop, as far as the plan goes: no statement of it
\* assigns total_size, num_video_chunks, chunk_idx, start_byte or end_byte, and
\* the for statement takes the next index.
LoopBody ==
  /\ pc = "download"
  /\ chunk_idx' = chunk_idx + 1
  /\ pc' = "loop"
  /\ UNCHANGED <<envVars, exitVars, srtVars, total_size, num_video_chunks,
                 start_byte, end_byte, chunk_duration, audio_size,
                 accumulated_audio, accumulated_size, audio_batch_count,
                 total_duration_offset, final_srt_parts, posts, error,
                 acc_duration, batches, last_batch, all_ok>>

NextRanges ==
  \/ Plan
  \/ LoopNext
  \/ LoopBody

SpecRanges == InitRanges /\ [][NextRanges]_vars

\* ------------------------------ handle_request (main.py l.17-79)
\* l.29: "if not data" (no JSON, or an empty object); l.43: one of video_url,
\* task_id, webhook_url is None or empty, webhook_url being read from the key
\* "n8n_webhook" (l.39).
Rejects(data) ==
  \/ DOMAIN data = {}
  \/ ~(Truthy(data, "video_url") /\ Truthy(data, "task_id")
         /\ Truthy(data, "n8n_webhook"))

\* l.24-72: the request is answered with 400, or process_video_task is entered.
HandleRequest ==
  /\ pc = "request"
  /\ IF Rejects(request)
       THEN /\ response' = 400
            /\ pc' = "responded"
            /\ UNCHANGED <<call_args, max_segment_mb>>
       ELSE /\ call_args' = CallArgs(request)
            /\ max_segment_mb' = DataGet(request, "max_segment_mb", DefaultMaxSegmentMb)
            /\ pc' = "head"
            /\ UNCHANGED response
  /\ UNCHANGED <<loopVars, exitVars, srtVars, name_bound, request, total_size,
                 posts, error, all_ok>>

\* l.74-79: process_video_task has returned, or has raised.
Respond ==
  /\ pc = "returned"
  /\ response = 0
  /\ response' = IF raised THEN 500 ELSE 200
  /\ pc' = "responded"
  /\ UNCHANGED <<loopVars, exitVars, srtVars, name_bound, max_segment_mb, request,
                 call_args, total_size, posts, error, all_ok>>

NextRequest ==
  \/ HandleRequest
  \/ Respond
  \/ Next

SpecRequest == InitRequest /\ [][NextRequest]_vars

TypeOK ==
  /\ pc \in {"request", "responded", "head", "metadata", "plan", "loop",
             "download", "combine", "convert", "accumulate", "batch",
             "cleanchunk", "assemble", "upload", "post", "except", "finally",
             "returned"}
  /\ chunk_idx \in 0..MaxChunks
  /\ num_video_chunks \in 0..MaxChunks
  /\ temp_dir \in {"exists", "removed"}

\* ============================================================ properties

Ceiling == max_segment_mb * 1024 * 1024
Dispatched == last_batch.n > 0

RECURSIVE Flatten(_)
Flatten(ss) == IF ss = <<>> THEN <<>> ELSE Head(ss) \o Flatten(Tail(ss))
BatchChunks == [i \in 1..Len(batches) |-> batches[i].chunks]
\* <<0, 1, ..., n - 1>>
Upto(n) == [i \in 1..n |-> i - 1]

FailurePosts == {i \in 1..Len(posts) : posts[i].payload.status = "failed"}
SuccessPosts == {i \in 1..Len(posts) : posts[i].payload.status = "success"}
Succeeded == pc = "returned" /\ error = ""

C4_GlobalMonotonic ==
  \A i, j \in 1..Len(final_srt_parts) :
    i < j => final_srt_parts[i].start <= final_srt_parts[j].start

\* Three batches: a successful one, a failed one, and a successful one whose
\* first cue starts at local time 0 after a cue that started at local 1000.
C4_Witness ==
  /\ pc = "assemble"
  /\ Len(batches) = 3
  /\ batches[1].result = "ok" /\ Len(batches[1].segments) = 2
  /\ batches[1].segments[2].start = 1000
  /\ batches[2].result = "transcribe_failed"
  /\ batches[3].result = "ok" /\ Len(batches[3].segments) = 2
  /\ batches[3].segments[1].start = 0
  /\ Len(final_srt_parts) = 4

\* The chunk loop ran to its end (no fatal error before or inside it).
LoopDone ==
  /\ pc \in {"assemble", "upload", "post", "except", "finally", "returned"}
  /\ chunk_idx = num_video_chunks
  /\ error \notin {"head request failed", "metadata download failed"}

\* C5 (coverage): the dispatched batches followed by the buffer are the chunks
\* 0, 1, 2, ... processed so far, each once and in order; no batch is empty; the
\* buffer is empty right after a dispatch; after the last chunk every chunk is in
\* a batch and the buffer is empty.
C5_Coverage ==
  LET taken == Flatten(BatchChunks) \o accumulated_audio IN
    /\ taken = Upto(Len(taken))
    /\ Len(taken) <= num_video_chunks
    /\ \A i \in 1..Len(batches) : batches[i].chunks # <<>>
    /\ (pc = "cleanchunk" /\ batches # <<>>
          /\ batches[Len(batches)].chunks[Len(batches[Len(batches)].chunks)] = chunk_idx)
         => (accumulated_audio = <<>> /\ accumulated_size = 0)
    /\ LoopDone => (Len(taken) = num_video_chunks
                      /\ accumulated_audio = <<>> /\ accumulated_size = 0)

\* All chunks dispatched in two batches, the first of two chunks and failed.
C5_Witness ==
  /\ pc = "assemble"
  /\ num_video_chunks = 3
  /\ Len(batches) = 2
  /\ batches[1].chunks = <<0, 1>>
  /\ batches[1].result = "transcribe_failed"
  /\ batches[2].chunks = <<2>>

C7_SuccessWhenAllSucceed ==
  (pc = "returned" /\ total_size > 0 /\ all_ok)
    => (error = "" /\ srt_stored /\ SuccessPosts # {})

FatalErrors ==
  {"metadata download failed", "chunk download failed",
   "chunk metadata combine failed", "audio conversion failed",
   "final.srt upload failed"}

\* Once an exception is being handled no pipeline step runs any more.
PipelineStopped ==
  error # "" => (UNCHANGED <<loopVars, total_size, srtVars, error>>
                   /\ SuccessPosts' = SuccessPosts)

\* A task that met a fatal error has returned after one POST of a failure
\* payload carrying task_id, user_id and the cause, and raised nothing.
FailureReported ==
  (pc = "returned" /\ error \in FatalErrors)
    => /\ Cardinality(FailurePosts) = 1
       /\ posts[Len(posts)].payload = FailurePayload(error)
       /\ posts[Len(posts)].payload.task_id = TASK_ID
       /\ posts[Len(posts)].payload.user_id = USER_ID
       /\ SuccessPosts = {}
       /\ ~raised

\* C8 (fatal errors end in a delivered failure): a fatal error stops the
\* pipeline, one failure payload with task_id, user_id and the cause is POSTed,
\* and process_video_task returns without raising, also when that POST fails.
C8_FatalErrorReported == [][PipelineStopped]_vars /\ []FailureReported

\* The final upload failed and the POST of the failure payload failed too.
C8_Witness ==
  /\ pc = "returned"
  /\ error = "final.srt upload failed"
  /\ posts[Len(posts)].returned = FALSE

C10_TempDirReleased ==
  /\ pc = "returned"
       => /\ rmtree_calls = 1
          /\ ~rmtree_error => temp_dir = "removed"
          /\ ~raised
  /\ pc # "returned" => (rmtree_calls = 0 /\ temp_dir = "exists")

\* A task with a skipped batch whose success POST failed, whose failure POST
\* failed, and whose rmtree met an error.
C10_Witness ==
  /\ pc = "returned"
  /\ error = "success webhook post failed"
  /\ \E i \in 1..Len(batches) : batches[i].result = "transcribe_failed"
  /\ posts[Len(posts)].returned = FALSE
  /\ rmtree_error

\* A batch whose transcription returned at least one cue: what the code counts
\* as a processed batch (l.127-130, l.170).
Yields(b) == b.result = "ok" /\ b.segments # <<>>

\* The entries of the batches that returned a transcript, in batch order, each
\* batch at the offset it was handed.
RECURSIVE EntriesOf(_)
EntriesOf(bs) ==
  IF bs = <<>> THEN <<>>
  ELSE LET b == bs[Len(bs)] IN
    EntriesOf(SubSeq(bs, 1, Len(bs) - 1))
      \o (IF b.result = "ok"
            THEN [i \in 1..Len(b.segments) |-> SrtEntry(b.segments[i], b.offset_before)]
            ELSE <<>>)

\* The failures of the calls that are not a batch's transcription.
OtherCallFailed ==
  {"chunk download failed", "chunk metadata combine failed",
   "audio conversion failed", "final.srt upload failed",
   "success webhook post failed"}

\* A batch's transcription has failed and another batch has yielded cues.
SkipCase ==
  \E i, j \in 1..Len(batches) :
    batches[i].result = "transcribe_failed" /\ Yields(batches[j])

\* C11 (skip-and-continue): when the transcription of a batch fails and another
\* batch yields cues, the failed batch does not fail the task (only the failure
\* of another call can); when the loop is done the cue list holds exactly the
\* cues of the batches that returned a transcript, final.srt is written with
\* exactly those cues, and a task that ends without error has stored it and
\* delivered a success payload.
C11_SkipAndContinue ==
  SkipCase =>
    /\ error \in {""} \cup OtherCallFailed
    /\ pc = "assemble" => final_srt_parts = EntriesOf(batches)
    /\ pc = "upload" => srt_file = WriteSrt(EntriesOf(batches))
    /\ Succeeded => (/\ srt_stored
                     /\ srt_file # ""
                     /\ SuccessPosts # {}
                     /\ posts[Len(posts)].returned)

\* The first batch failed, two later batches were still transcribed and
\* yielded cues, and the task ended with a delivered success payload.
C11_Witness ==
  /\ Succeeded
  /\ Len(batches) = 3
  /\ batches[1].result = "transcribe_failed"
  /\ Yields(batches[2]) /\ Yields(batches[3])
  /\ Len(final_srt_parts) = Len(batches[2].segments) + Len(batches[3].segments)
  /\ SuccessPosts # {}

C13_FinalUploadFatal ==
  /\ \A i \in SuccessPosts :
       /\ srt_stored
       /\ posts[i].payload.srt_url = GcsUrl(SrtBlobPath(call_args))
  /\ error = "final.srt upload failed"
       => /\ ~srt_stored
          /\ SuccessPosts = {}
          /\ pc = "returned"
               => (Len(posts) = 1 /\ posts[1].payload = FailurePayload(error))

\* final.srt was written, its upload failed, and the failure payload was
\* delivered.
C13_Witness ==
  /\ pc = "returned"
  /\ error = "final.srt upload failed"
  /\ srt_file # ""
  /\ Len(posts) = 1 /\ posts[1].returned

\* The file of the layout "{n}\n{start} --> {end}\n{text}\n\n" for n = 1..N,
\* the line "{start} --> {end}\n{text}" of a cue being its srt_entry.
RECURSIVE BlankLineLayout(_)
BlankLineLayout(parts) ==
  IF parts = <<>> THEN ""
  ELSE BlankLineLayout(SubSeq(parts, 1, Len(parts) - 1))
         \o Dec(Len(parts)) \o "\n" \o parts[Len(parts)].srt_entry \o "\n\n"

SrtTimestamp(ms) ==
  ZeroPad(ms \div 3600000, 2) \o ":" \o ZeroPad((ms % 3600000) \div 60000, 2)
    \o ":" \o ZeroPad((ms % 60000) \div 1000, 2) \o "," \o ZeroPad(ms % 1000, 3)

Accepted == pc \notin {"request", "responded"} \/ (pc = "responded" /\ response # 400)

HasRequired(data) ==
  Truthy(data, "video_url") /\ Truthy(data, "task_id") /\ Truthy(data, "webhook_url")

\* C17 (required request fields): once handle_request has decided, a request
\* with non-empty video_url, task_id and webhook_url has had process_video_task
\* called with those three values (user_id "anonymous" when it has none), and
\* any other request has been answered with an error, process_video_task not
\* called.
C17_RequiredFields ==
  pc # "request" =>
    IF HasRequired(request)
      THEN /\ Accepted
           /\ call_args.video_url = request["video_url"]
           /\ call_args.task_id = request["task_id"]
           /\ call_args.webhook_url = request["webhook_url"]
           /\ call_args.user_id = DataGet(request, "user_id", "anonymous")
      ELSE /\ response = 400
           /\ call_args = NoCall

\* The local times cues [start, end] of a batch's transcript shifted by the
\* offset the batch was handed.
ShiftedTimes(b) ==
  [i \in 1..Len(b.segments) |->
     <<b.segments[i].start + b.offset_before, b.segments[i].end + b.offset_before>>]

\* The shifted times of every transcript, in batch order and, within a batch,
\* in transcript order.
RECURSIVE Reassembled(_)
Reassembled(bs) ==
  IF bs = <<>> THEN <<>>
  ELSE Reassembled(SubSeq(bs, 1, Len(bs) - 1))
         \o (IF bs[Len(bs)].result = "ok" THEN ShiftedTimes(bs[Len(bs)]) ELSE <<>>)

\* C18 (ordered, lossless reassembly): after every batch, and when the loop is
\* done and final.srt is written from it, the cue list is the concatenation in
\* batch order of the cues of every transcript returned so far, in transcript
\* order, none dropped, duplicated or reordered, the start and the end of each
\* shifted by the offset in force before its batch.
C18_OrderedLossless ==
  pc \in {"cleanchunk", "assemble", "upload"} =>
    [i \in 1..Len(final_srt_parts) |->
       <<final_srt_parts[i].start, final_srt_parts[i].end>>] = Reassembled(batches)

\* Three batches that each returned two cues, the later ones at an offset.
C18_Witness ==
  /\ pc = "assemble"
  /\ Len(batches) = 3
  /\ \A i \in 1..3 : batches[i].result = "ok" /\ Len(batches[i].segments) = 2
  /\ batches[3].offset_before > batches[2].offset_before
  /\ batches[2].offset_before > 0
  /\ Len(final_srt_parts) = 6

\* The size probe answered, with no Content-Length or with 0.
ProbedZero == pc # "head" /\ error # "head request failed" /\ total_size = 0

\* C19 (unknown or zero media size is fatal): after a size probe that gave 0
\* the task never downloads a chunk, hands no batch to process_audio_batch,
\* writes and stores no final.srt and POSTs no success payload; it returns with
\* an error after POSTing one payload, the failure payload.
C19_ZeroSizeFatal ==
  ProbedZero =>
    /\ pc \in {"metadata", "plan", "loop", "assemble", "except", "finally", "returned"}
    /\ num_video_chunks = 0
    /\ batches = <<>> /\ accumulated_audio = <<>> /\ audio_batch_count = 0
    /\ srt_file = "" /\ ~srt_stored
    /\ SuccessPosts = {}
    /\ pc = "returned"
         => /\ error \in {"metadata download failed", "no audio batch was processed"}
            /\ Len(posts) = 1
            /\ posts[1].payload = FailurePayload(error)

\* The probe gave 0, the metadata request succeeded, the loop had nothing to
\* do, and the failure payload was delivered.
C19_Witness ==
  /\ ProbedZero
  /\ pc = "returned"
  /\ error = "no audio batch was processed"
  /\ posts[1].returned

\* The range of the current chunk within a plan for a positive size.
RangeOK ==
  (total_size > 0 /\ pc # "plan") =>
    /\ num_video_chunks >= 1
    /\ (num_video_chunks - 1) * VIDEO_CHUNK_SIZE_BYTES < total_size
    /\ total_size <= num_video_chunks * VIDEO_CHUNK_SIZE_BYTES
    /\ pc = "download" =>
         /\ 0 <= start_byte /\ start_byte <= end_byte /\ end_byte <= total_size - 1
         /\ end_byte - start_byte + 1 <= VIDEO_CHUNK_SIZE_BYTES
         /\ chunk_idx = 0 => start_byte = 0
         /\ chunk_idx = num_video_chunks - 1 => end_byte = total_size - 1

\* Taking a further chunk starts where the previous one ended.
RangeFollows ==
  (pc' = "download" /\ chunk_idx' > 0) => start_byte' = end_byte + 1

\* C20 (byte-range plan): for a positive total_size there are
\* ceil(total_size / VIDEO_CHUNK_SIZE_BYTES) chunks; the ranges are non-empty,
\* of at most VIDEO_CHUNK_SIZE_BYTES bytes, start at byte 0, each start where
\* the previous one ended plus one, and the last ends at total_size - 1.
C20_ByteRangePlan == []RangeOK /\ [][RangeFollows]_vars

\* The last range of a size that is an exact multiple of the chunk size.
C20_Witness ==
  /\ pc = "download"
  /\ total_size = MaxChunks * VIDEO_CHUNK_SIZE_BYTES
  /\ chunk_idx = MaxChunks - 1
  /\ end_byte = total_size - 1
  /\ end_byte - start_byte + 1 = VIDEO_CHUNK_SIZE_BYTES

\* No batch handed to process_audio_batch so far has yielded a cue.
NoCues == \A i \in 1..Len(batches) : ~Yields(batches[i])

\* C21 (no cues means failure): as long as no batch has contributed a cue
\* (its transcription failed, or returned no segment) the cue list is empty,
\* final.srt is neither written nor uploaded and no success payload is POSTed;
\* a task that returns in that case has an error and has POSTed one payload, the
\* failure payload.
C21_NoCuesMeansFailure ==
  NoCues =>
    /\ final_srt_parts = <<>>
    /\ pc \notin {"upload", "post"}
    /\ srt_file = "" /\ ~srt_stored /\ srt_url = ""
    /\ SuccessPosts = {}
    /\ pc = "returned"
         => /\ error # ""
            /\ Len(posts) = 1
            /\ posts[1].payload = FailurePayload(error)

\* Every chunk was dispatched, one batch's transcription failed and another
\* returned no segment, and the failure payload was delivered.
C21_Witness ==
  /\ pc = "returned"
  /\ LoopDone
  /\ NoCues
  /\ \E i, j \in 1..Len(batches) :
       /\ batches[i].result = "transcribe_failed"
       /\ batches[j].result = "ok" /\ batches[j].segments = <<>>
  /\ error = "no audio batch was processed"
  /\ posts[1].returned
====
